---- MODULE Spec2Model ----
(***************************************************************************)
(* Model of ratekit's mail search-and-retrieval pipeline                   *)
(* (src/src/ratekit/func/mail): the IMAP criteria builders, the EmailData  *)
(* record, the result policy sort_email_objects and the two search paths   *)
(* of search_emails.                                                       *)
(*                                                                         *)
(* Text (subjects, bodies, file names, keywords) is a sequence of symbols; *)
(* Python's `k in s` is the contiguous-subsequence test In(k, s).          *)
(* An optional value (Optional[datetime], a header that may be missing) is *)
(* a sequence of length 0 (None) or 1.                                     *)
(* A Python call yields [status, val]: status "ok" with the returned       *)
(* value, or the name of the exception that left the function.             *)
(***************************************************************************)
EXTENDS Integers, Sequences, FiniteSets, TLC

VARIABLES
    args,     \* the arguments of the call under check (fn names the function)
    ret,      \* what the call gave back: [status, val]
    mailbox,  \* the messages of the selected folder; the id is the position
    disk,     \* the download folder: [dirs, files]
    trace     \* what the call did: path taken, session commands, candidates

vars == <<args, ret, mailbox, disk, trace>>

----------------------------------------------------------------------------
(* Bounds *)

MaxEmails == 4
MaxDate == 2
MaxMatches == 2
MaxKeywords == 3
MaxSenders == 2
MaxMsgs == 2
MaxCap == 1

----------------------------------------------------------------------------
(* Python values *)

None == <<>>
Some(v) == <<v>>
IsNone(o) == o = <<>>

Ok(v) == [status |-> "ok", val |-> v]
Raise(e) == [status |-> e, val |-> <<>>]
Pending == [status |-> "pending", val |-> <<>>]

\* Nothing downloaded; no call made.
EmptyDisk == [dirs |-> {}, files |-> {}]
NoTrace == [path |-> "none", log |-> <<>>, candidates |-> <<>>, searched |-> FALSE,
            failed |-> FALSE, before |-> EmptyDisk]

Reverse(s) == [i \in 1..Len(s) |-> s[Len(s) + 1 - i]]
Take(s, n) == SubSeq(s, 1, IF n < Len(s) THEN n ELSE Len(s))

\* All sequences over S of length at most n.
SeqsUpTo(S, n) == UNION {[1..k -> S] : k \in 0..n}

\* Body applied to the value of v, v being evaluated once.
Let(v, Body(_)) == CHOOSE r \in {Body(x) : x \in {v}} : TRUE

\* Python's `k in s` on strings: k is a contiguous part of s ('' is in all).
In(k, s) == \E i \in 0..(Len(s) - Len(k)) : SubSeq(s, i + 1, i + Len(k)) = k

\* sep.join(parts), on sequences.
RECURSIVE Join(_, _)
Join(parts, sep) ==
    IF parts = <<>> THEN <<>>
    ELSE IF Len(parts) = 1 THEN parts[1]
    ELSE parts[1] \o sep \o Join(Tail(parts), sep)

----------------------------------------------------------------------------
(* sorted(emails, key=lambda mail: mail.date, reverse=reverse) *)

\* Position of x in the ascending list s: after every element whose key is
\* not greater than x's (list.sort is stable).
InsertAfterEquals(s, x) ==
    LET k == Cardinality({i \in 1..Len(s) : s[i].date[1] <= x.date[1]})
    IN SubSeq(s, 1, k) \o <<x>> \o SubSeq(s, k + 1, Len(s))

RECURSIVE StableSortAsc(_)
StableSortAsc(s) ==
    IF s = <<>> THEN <<>>
    ELSE InsertAfterEquals(StableSortAsc(SubSeq(s, 1, Len(s) - 1)), s[Len(s)])

\* A bug a reimplementation could have: sort ascending, then reverse.
sorted_by_date_flip(emails, reverse) ==
    IF Len(emails) >= 2 /\ \E i \in 1..Len(emails) : IsNone(emails[i].date)
    THEN Raise("TypeError")
    ELSE Ok(IF reverse THEN Reverse(StableSortAsc(emails))
                       ELSE StableSortAsc(emails))

\* list.sort compares every element of a list of two or more with another
\* one, and None < datetime (either way, and None < None) is a TypeError.
\* reverse=True reverses the list, sorts it stably and reverses the result.
sorted_by_date(emails, reverse) ==
    IF Len(emails) >= 2 /\ \E i \in 1..Len(emails) : IsNone(emails[i].date)
    THEN Raise("TypeError")
    ELSE Ok(IF reverse THEN Reverse(StableSortAsc(Reverse(emails)))
                       ELSE StableSortAsc(emails))

----------------------------------------------------------------------------
(* sort_email_objects *)

SortDirections == {"recent_first", "recent_last"}

\* The list comprehension [mail for mail in emails if mail.attachments].
WithAttachments(emails) == SelectSeq(emails, LAMBDA m : m.attachments # <<>>)

sort_email_objects(emails, include_emails_without_attachments, sort_direction, no_of_matches) ==
    IF sort_direction \notin SortDirections THEN Raise("ValueError")
    ELSE
        LET filtered == IF ~include_emails_without_attachments
                        THEN WithAttachments(emails) ELSE emails
            cut == IF no_of_matches # 0 THEN Take(filtered, no_of_matches)
                   ELSE filtered
        IN sorted_by_date(cut, sort_direction = "recent_first")

----------------------------------------------------------------------------
(* Specification of sort_email_objects on bounded inputs *)

Dates == {None} \cup {Some(t) : t \in 1..MaxDate}

\* The fields of an EmailData that the result policy reads; email_id is the
\* position in the list handed over by retrieval.
SortRecords == {s \in SeqsUpTo([date : Dates, attachments : {<<>>, <<"f">>}],
                               MaxEmails) : TRUE}

Numbered(s) == [i \in 1..Len(s) |->
                  [email_id |-> i, date |-> s[i].date,
                   attachments |-> s[i].attachments]]

InitSort ==
    /\ args \in [fn : {"sort_email_objects"},
                 emails : {Numbered(s) : s \in SortRecords},
                 include_emails_without_attachments : BOOLEAN,
                 sort_direction : SortDirections \cup {"oldest_first"},
                 no_of_matches : 0..MaxMatches]
    /\ ret = Pending
    /\ mailbox = <<>>
    /\ disk = EmptyDisk
    /\ trace = NoTrace

SortEmailObjects ==
    /\ ret.status = "pending"
    /\ ret' = sort_email_objects(args.emails,
                                 args.include_emails_without_attachments,
                                 args.sort_direction, args.no_of_matches)
    /\ UNCHANGED <<args, mailbox, disk, trace>>

NextSort == SortEmailObjects

SpecSort == InitSort /\ [][NextSort]_vars

----------------------------------------------------------------------------
(* Properties of the result policy (under SpecSort) *)

Sorted == args.fn = "sort_email_objects" /\ ret.status # "pending"

\* Position in the input list of the record with this email_id.
InputPos(id) == CHOOSE i \in 1..Len(args.emails) : args.emails[i].email_id = id

\* C4: sort_email_objects on any list with a valid direction does not fail,
\* and a record whose date is None orders before every dated record: last
\* under 'recent_first', first under 'recent_last'.
C4_NoneDatesSortAsEarliest ==
    (Sorted /\ args.sort_direction \in SortDirections) =>
        /\ ret.status = "ok"
        /\ \A i, j \in 1..Len(ret.val) :
              (i < j /\ IsNone(ret.val[i].date) # IsNone(ret.val[j].date)) =>
                  IF args.sort_direction = "recent_first"
                  THEN IsNone(ret.val[j].date)
                  ELSE IsNone(ret.val[i].date)

\* The whole filtered-and-sorted list: the same call without a cap.
Uncapped == sort_email_objects(args.emails,
                               args.include_emails_without_attachments,
                               args.sort_direction, 0)

\* C5: with no_of_matches = n > 0 the result is the first n records of the
\* fully filtered-and-sorted list (truncation after the sort); n = 0 gives
\* the whole list.
C5_TruncationAfterSort ==
    (Sorted /\ ret.status = "ok" /\ Uncapped.status = "ok") =>
        ret.val = IF args.no_of_matches > 0
                  THEN Take(Uncapped.val, args.no_of_matches)
                  ELSE Uncapped.val

\* C6: in both directions, two records of the output with equal dates are
\* in the order they had in the input list.
C6_SortIsStable ==
    (Sorted /\ ret.status = "ok") =>
        \A i, j \in 1..Len(ret.val) :
            (i < j /\ ret.val[i].date = ret.val[j].date) =>
                InputPos(ret.val[i].email_id) < InputPos(ret.val[j].email_id)

\* A 'recent_first' sort returned a list holding a tie next to a record of
\* another date.
C6_Witness ==
    /\ Sorted /\ ret.status = "ok"
    /\ args.sort_direction = "recent_first"
    /\ \E i, j, k \in 1..Len(ret.val) :
          /\ i < j
          /\ ret.val[i].date = ret.val[j].date
          /\ ret.val[k].date # ret.val[i].date

----------------------------------------------------------------------------
(* search_filters.py: the IMAP criteria strings, as token sequences *)

Tok(t, v) == [t |-> t, v |-> v]
LP == Tok("(", <<>>)
RP == Tok(")", <<>>)
OR == Tok("OR", <<>>)

\* As build_keyword_criteria but without the check that something was
\* built: nothing enabled gives an empty string.
build_keyword_criteria_unchecked(keywords, search_body, search_subject) ==
    LET group(key) ==
            IF Len(keywords) > 1
            THEN <<LP>> \o <<OR, LP>>
                 \o Join([i \in 1..Len(keywords) |-> <<LP, Tok(key, keywords[i]), RP>>], <<RP, LP>>)
                 \o <<RP>> \o <<RP>>
            ELSE <<Tok(key, keywords[1])>>
        body == IF search_body /\ keywords # <<>> THEN <<group("BODY")>> ELSE <<>>
        subj == IF search_subject /\ keywords # <<>> THEN <<group("SUBJECT")>> ELSE <<>>
        search_criteria == body \o subj
    IN IF Len(search_criteria) > 1
       THEN Ok(<<LP, OR, LP>> \o Join(search_criteria, <<RP, LP>>) \o <<RP, RP>>)
       ELSE Ok(Join(search_criteria, <<RP, LP>>))

\* f'(BODY "{keyword}")' is <<LP, BODY keyword, RP>>; ') ('.join puts
\* <<RP, LP>> between the items.
build_keyword_criteria(keywords, search_body, search_subject) ==
    LET group(key) ==
            IF Len(keywords) > 1
            THEN <<LP>> \o <<OR, LP>>
                 \o Join([i \in 1..Len(keywords) |-> <<LP, Tok(key, keywords[i]), RP>>], <<RP, LP>>)
                 \o <<RP>> \o <<RP>>
            ELSE <<Tok(key, keywords[1])>>
        body == IF search_body /\ keywords # <<>> THEN <<group("BODY")>> ELSE <<>>
        subj == IF search_subject /\ keywords # <<>> THEN <<group("SUBJECT")>> ELSE <<>>
        search_criteria == body \o subj
    IN IF search_criteria = <<>> THEN Raise("ValueError")
       ELSE IF Len(search_criteria) > 1
       THEN Ok(<<LP, OR, LP>> \o Join(search_criteria, <<RP, LP>>) \o <<RP, RP>>)
       ELSE Ok(Join(search_criteria, <<RP, LP>>))

build_sender_criteria(sender_list) ==
    IF sender_list = <<>> THEN <<>>
    ELSE IF Len(sender_list) > 1
    THEN <<OR, LP>> \o [i \in 1..Len(sender_list) |-> Tok("FROM", sender_list[i])] \o <<RP>>
    ELSE <<Tok("FROM", sender_list[1])>>

build_date_criteria(start_date, end_date) ==
    (IF ~IsNone(start_date) THEN <<Tok("SINCE", start_date)>> ELSE <<>>)
    \o (IF ~IsNone(end_date) THEN <<Tok("BEFORE", end_date)>> ELSE <<>>)

build_overall_criteria(keywords, search_body, search_subject, start_date, end_date, sender_list) ==
    LET search_str == build_keyword_criteria(keywords, search_body, search_subject)
        dates_str == build_date_criteria(start_date, end_date)
        sender_str == build_sender_criteria(sender_list)
    IN IF search_str.status # "ok" THEN search_str
       ELSE IF sender_str # <<>>
       THEN Ok(<<LP>> \o dates_str \o search_str.val \o sender_str)
       ELSE Ok(<<LP>> \o dates_str \o search_str.val \o <<RP>>)

----------------------------------------------------------------------------
(* The mailbox server's reading of a SEARCH command (RFC 3501 search-key):  *)
(* OR takes exactly two keys, a parenthesised list and the top-level list   *)
(* hold one or more keys and are conjunctions.                              *)

\* The text of a header, given as its encoded chunks (None: no header).
HeaderText(h) == Join(h[1], <<>>)

\* What one atomic key tests on a message.
KeyMatches(tok, m) ==
    CASE tok.t = "BODY" -> \E i \in 1..Len(m.parts) : In(tok.v, m.parts[i].payload)
      [] tok.t = "SUBJECT" -> ~IsNone(m.subject) /\ In(tok.v, HeaderText(m.subject))
      [] tok.t = "FROM" -> ~IsNone(m.sender) /\ In(tok.v, HeaderText(m.sender))
      [] tok.t = "SINCE" -> m.internaldate >= tok.v[1]
      [] tok.t = "BEFORE" -> m.internaldate < tok.v[1]

ParseFail == [ok |-> FALSE, val |-> FALSE, next |-> 0, count |-> 0]

RECURSIVE ParseKey(_, _, _), ParseKeys(_, _, _)
\* One search-key starting at toks[i]: [ok, val, next].
ParseKey(toks, i, m) ==
    IF i > Len(toks) THEN ParseFail
    ELSE IF toks[i].t = ")" THEN ParseFail
    ELSE IF toks[i].t = "OR" THEN
        LET a == ParseKey(toks, i + 1, m)
            b == ParseKey(toks, a.next, m)
        IN IF ~a.ok THEN ParseFail
           ELSE IF ~b.ok THEN ParseFail
           ELSE [ok |-> TRUE, val |-> a.val \/ b.val, next |-> b.next, count |-> 1]
    ELSE IF toks[i].t = "(" THEN
        LET l == ParseKeys(toks, i + 1, m)
        IN IF ~l.ok \/ l.count = 0 THEN ParseFail
           ELSE IF l.next > Len(toks) THEN ParseFail
           ELSE [ok |-> TRUE, val |-> l.val, next |-> l.next + 1, count |-> 1]
    ELSE [ok |-> TRUE, val |-> KeyMatches(toks[i], m), next |-> i + 1, count |-> 1]

\* The keys from toks[i] up to a ")" or the end, ANDed.
ParseKeys(toks, i, m) ==
    IF i > Len(toks) THEN [ok |-> TRUE, val |-> TRUE, next |-> i, count |-> 0]
    ELSE IF toks[i].t = ")" THEN [ok |-> TRUE, val |-> TRUE, next |-> i, count |-> 0]
    ELSE LET k == ParseKey(toks, i, m)
             rest == ParseKeys(toks, k.next, m)
         IN IF ~k.ok THEN ParseFail
            ELSE IF ~rest.ok THEN ParseFail
            ELSE [ok |-> TRUE, val |-> k.val /\ rest.val, next |-> rest.next, count |-> rest.count + 1]

\* Whether the server accepts message m under the criteria; "BAD" when the
\* criteria are not a search command.
ServerAccepts(toks, m) ==
    LET r == ParseKeys(toks, 1, m)
    IN IF r.ok /\ r.count >= 1 /\ r.next = Len(toks) + 1
       THEN Ok(r.val) ELSE Raise("BAD")

----------------------------------------------------------------------------
(* Specification of the criteria builders on bounded inputs *)

Symbols == {"a", "b"}
Keywords == {<<"a">>, <<"b">>, <<"a", "b">>}
Texts == SeqsUpTo(Symbols, 2)
Senders == {<<"x">>, <<"y">>}

\* A message with one text part and one-chunk headers.
PlainMessage(sender, subject, body, day) ==
    [sender |-> Some(<<sender>>), subject |-> Some(<<subject>>), date |-> Some(day), internaldate |-> day,
     parts |-> <<[ctype |-> "text/plain", disposition |-> None, filename |-> None,
                  payload |-> body, parses |-> TRUE]>>]

TestMessages == {PlainMessage(<<"x">>, s, b, 1) : s \in Texts, b \in Texts}

\* main.py: the session and the date/sender search of the slow path.

\* A session command fails when it is the fail-th command of the call
\* (fail = 0: none fails), in one of two ways: imaplib raises (timeout,
\* abort, a BAD answer), or the server answers NO and imaplib returns
\* ('NO', [text]) like any other (result, data) pair.  A search with
\* criteria the server cannot read is answered BAD.
Cmd(c, a) == [cmd |-> c, arg |-> a]
FailureKinds == {"exception", "NO"}

\* data[0].split() on the text of a NO answer: words that are no message
\* id; 0 stands for such a word.
NoWords == <<0>>
WellFormed(criteria) == ServerAccepts(criteria, PlainMessage(<<>>, <<>>, <<>>, 0)).status = "ok"

\* mail.search(None, criteria_str); data[0].split(): the ids of the accepted
\* messages, in mailbox order.
SessionSearch(mb, criteria) ==
    SelectSeq([i \in 1..Len(mb) |-> i], LAMBDA i : ServerAccepts(criteria, mb[i]).val)

fetch_emails_in_date_range(mb, start_date, end_date, folder, sender_list, fail, how) ==
    LET date_criteria_str == build_date_criteria(start_date, end_date)
        sender_criteria_str == build_sender_criteria(sender_list)
        criteria_str == IF sender_criteria_str # <<>>
                        THEN date_criteria_str \o sender_criteria_str
                        ELSE date_criteria_str
        select == <<Cmd("select", <<folder>>)>>
        search == <<Cmd("search", criteria_str)>>
    IN IF fail = 1  \* after a NO to select the search is illegal in state AUTH
       THEN [status |-> "RuntimeError", val |-> <<>>, log |-> select, searched |-> FALSE]
       ELSE IF (fail = 2 /\ how = "exception") \/ ~WellFormed(criteria_str)
       THEN [status |-> "RuntimeError", val |-> <<>>, log |-> select \o search, searched |-> FALSE]
       ELSE IF fail = 2
       THEN [status |-> "ok", val |-> NoWords, log |-> select \o search, searched |-> FALSE]
       ELSE [status |-> "ok", val |-> SessionSearch(mb, criteria_str),
             log |-> select \o search, searched |-> TRUE]

KeywordArgs ==
    [fn : {"build_keyword_criteria"},
     keywords : SeqsUpTo(Keywords, MaxKeywords),
     search_body : BOOLEAN, search_subject : BOOLEAN]

OverallArgs ==
    [fn : {"build_overall_criteria"},
     keywords : SeqsUpTo(Keywords, MaxKeywords),
     search_body : BOOLEAN, search_subject : BOOLEAN,
     start_date : Dates, end_date : Dates,
     sender_list : SeqsUpTo(Senders, MaxSenders)]

\* The date/sender search of the slow path, on an empty folder.
FetchArgs ==
    [fn : {"fetch_emails_in_date_range"},
     start_date : Dates, end_date : Dates, folder : {"inbox"},
     sender_list : SeqsUpTo(Senders, MaxSenders)]

InitCriteria ==
    /\ args \in KeywordArgs \cup OverallArgs \cup FetchArgs
    /\ ret = Pending
    /\ mailbox = <<>>
    /\ disk = EmptyDisk
    /\ trace = NoTrace

BuildKeywordCriteria ==
    /\ ret.status = "pending"
    /\ args.fn = "build_keyword_criteria"
    /\ ret' = build_keyword_criteria(args.keywords, args.search_body, args.search_subject)
    /\ UNCHANGED <<args, mailbox, disk, trace>>

BuildOverallCriteria ==
    /\ ret.status = "pending"
    /\ args.fn = "build_overall_criteria"
    /\ ret' = build_overall_criteria(args.keywords, args.search_body, args.search_subject,
                                     args.start_date, args.end_date, args.sender_list)
    /\ UNCHANGED <<args, mailbox, disk, trace>>

\* fetch_emails_in_date_range, no session failure.
FetchEmailsInDateRange ==
    /\ ret.status = "pending"
    /\ args.fn = "fetch_emails_in_date_range"
    /\ \E r \in {fetch_emails_in_date_range(mailbox, args.start_date, args.end_date, args.folder,
                                            args.sender_list, 0, "exception")} :
          /\ ret' = [status |-> r.status, val |-> r.val]
          /\ trace' = [NoTrace EXCEPT !.path = "slow", !.log = r.log, !.searched = r.searched]
    /\ UNCHANGED <<args, mailbox, disk>>

NextCriteria == BuildKeywordCriteria \/ BuildOverallCriteria \/ FetchEmailsInDateRange

SpecCriteria == InitCriteria /\ [][NextCriteria]_vars

----------------------------------------------------------------------------
(* Properties of the criteria builders (under SpecCriteria) *)

Built == args.fn \in {"build_keyword_criteria", "build_overall_criteria"} /\ ret.status # "pending"

\* At least one keyword occurs in at least one enabled target of m.
AnyKeywordInAnyTarget(m) ==
    \E i \in 1..Len(args.keywords) :
        \/ args.search_body /\ In(args.keywords[i], m.parts[1].payload)
        \/ args.search_subject /\ In(args.keywords[i], HeaderText(m.subject))

\* C8: the expression of build_keyword_criteria, read by the server, accepts
\* a message iff at least one keyword occurs in at least one enabled target.
C8_KeywordCriteriaIsDisjunction ==
    (Built /\ args.fn = "build_keyword_criteria" /\ ret.status = "ok") =>
        \A m \in TestMessages :
            /\ ServerAccepts(ret.val, m).status = "ok"
            /\ ServerAccepts(ret.val, m).val = AnyKeywordInAnyTarget(m)

\* C9: with keywords, building fails (ValueError, no expression) exactly
\* when neither search_body nor search_subject is set.
C9_NoTargetIsConfigurationError ==
    (Built /\ args.keywords # <<>>) =>
        /\ ret.status \in {"ok", "ValueError"}
        /\ ret.status = "ValueError" <=> (~args.search_body /\ ~args.search_subject)
        /\ ret.status = "ValueError" => ret.val = <<>>
        /\ ret.status = "ok" => ret.val # <<>>

\* build_overall_criteria was refused for keywords without a target.
C9_Witness ==
    /\ Built /\ args.fn = "build_overall_criteria"
    /\ Len(args.keywords) = 2 /\ ~args.search_body /\ ~args.search_subject
    /\ ret.status = "ValueError"

CountTok(toks, kind) == Cardinality({i \in 1..Len(toks) : toks[i].t = kind})
EnabledTargets == (IF args.search_body THEN 1 ELSE 0) + (IF args.search_subject THEN 1 ELSE 0)

\* C10: no keyword gives an expression of the date and sender terms only,
\* whatever the flags; one keyword gives a bare term per enabled target and
\* several keywords one OR-group per enabled target.
C10_EmptyKeywordsBuildFilter ==
    (Built /\ args.fn = "build_overall_criteria") =>
        /\ args.keywords = <<>> =>
              /\ ret.status = "ok"
              /\ CountTok(ret.val, "BODY") + CountTok(ret.val, "SUBJECT") = 0
        /\ (Len(args.keywords) = 1 /\ ret.status = "ok") =>
              /\ CountTok(ret.val, "BODY") = (IF args.search_body THEN 1 ELSE 0)
              /\ CountTok(ret.val, "SUBJECT") = (IF args.search_subject THEN 1 ELSE 0)
        /\ (Len(args.keywords) > 1 /\ ret.status = "ok") =>
              CountTok(ret.val, "OR") >= EnabledTargets

----------------------------------------------------------------------------
(* objects.py: EmailData *)

\* A message is [sender, subject, date, internaldate, parts]: the headers
\* (None when missing; sender and subject as their encoded chunks), the
\* day the server received it, and the parts in the order of msg.walk().
\* A multipart message starts with its container part.  A part is
\* [ctype, disposition, filename, payload, parses]; parses tells whether
\* pandas can read the payload as a table.

is_multipart(msg) == msg.parts[1].ctype = "multipart/mixed"

\* decode_header(h)[0][0]: the first chunk only; a missing or empty header
\* is left as it is.
DecodeFirst(h) ==
    IF IsNone(h) THEN None
    ELSE IF h[1] = <<>> THEN Some(<<>>)
    ELSE Some(h[1][1])

\* BeautifulSoup(text, 'html.parser').get_text(): the markup is dropped.
HtmlTags == {"<b>", "</b>"}
get_text(payload) == SelectSeq(payload, LAMBDA c : c \notin HtmlTags)

\* Path(filename).suffix: the extension symbol that ends a name with a stem.
Extensions == {".csv", ".CSV", ".xls", ".xlsx", ".txt"}
Suffix(name) == IF Len(name) >= 2 /\ name[Len(name)] \in Extensions THEN name[Len(name)] ELSE ""

\* str(part.get("Content-Disposition")) as symbols: the disposition type
\* followed by the filename parameter; 'None' without the header.
DispositionHeader(part) ==
    IF IsNone(part.disposition) THEN <<"None">>
    ELSE part.disposition \o (IF IsNone(part.filename) THEN <<>> ELSE part.filename[1])

\* The email body (objects.py:98-112).
MessageBody(msg) ==
    IF is_multipart(msg) THEN
        LET contributes(part) ==
                /\ part.ctype \in {"text/plain", "text/html"}
                /\ ~In(<<"attachment">>, DispositionHeader(part))
            text(part) == IF part.ctype = "text/html" THEN get_text(part.payload) ELSE part.payload
            chosen == SelectSeq(msg.parts, contributes)
        IN Join([i \in 1..Len(chosen) |-> text(chosen[i])], <<"\n">>)
    ELSE msg.parts[1].payload

\* A bug a reimplementation could have: extensions compared without case.
Lower(ext) == IF ext = ".CSV" THEN ".csv" ELSE ext
DownloadedPartsAnyCase(msg, download_filetypes) ==
    LET wanted(part) ==
            /\ part.ctype # "multipart/mixed"
            /\ ~IsNone(part.disposition)
            /\ ~IsNone(part.filename) /\ part.filename[1] # <<>>
            /\ \/ \E i \in 1..Len(download_filetypes) :
                     Lower(Suffix(part.filename[1])) = Lower(download_filetypes[i])
               \/ \E i \in 1..Len(download_filetypes) : download_filetypes[i] = "*"
    IN SelectSeq(msg.parts, wanted)

\* The parts that are downloaded (objects.py:115-135), in walk order.
DownloadedParts(msg, download_filetypes) ==
    LET wanted(part) ==
            /\ part.ctype # "multipart/mixed"
            /\ ~IsNone(part.disposition)
            /\ ~IsNone(part.filename) /\ part.filename[1] # <<>>
            /\ \/ \E i \in 1..Len(download_filetypes) : Suffix(part.filename[1]) = download_filetypes[i]
               \/ \E i \in 1..Len(download_filetypes) : download_filetypes[i] = "*"
    IN SelectSeq(msg.parts, wanted)

\* populate_object: the record's fields (attachments are file names under
\* download_folder/email_folder/email_id/).
populate_object(msg, email_id, email_folder, download_filetypes) ==
    LET parts == DownloadedParts(msg, download_filetypes)
    IN [email_id |-> email_id,
        email_folder |-> email_folder,
        sender |-> DecodeFirst(msg.sender),
        subject |-> DecodeFirst(msg.subject),
        date |-> msg.date,
        message |-> MessageBody(msg),
        attachments |-> [i \in 1..Len(parts) |-> parts[i].filename[1]],
        dataframes |-> {}]

\* The disk after populate_object wrote the attachments of obj.
WriteAttachments(d, obj) ==
    IF obj.attachments = <<>> THEN d
    ELSE [dirs |-> d.dirs \cup {<<obj.email_folder, obj.email_id>>},
          files |-> d.files \cup {<<obj.email_folder, obj.email_id, obj.attachments[i]>> :
                                     i \in 1..Len(obj.attachments)}]

\* Whether pandas reads the file of this name: the payload written last.
FileParses(msg, name) ==
    LET idx == {i \in 1..Len(msg.parts) : msg.parts[i].filename = Some(name)}
    IN msg.parts[CHOOSE i \in idx : \A j \in idx : j <= i].parses

IsTabular(name) == Suffix(name) \in {".csv", ".xlsx", ".xls"}

\* get_dataframes: read_csv / read_excel raise on a file they cannot read.
get_dataframes(msg, obj) ==
    IF \E i \in 1..Len(obj.attachments) :
          IsTabular(obj.attachments[i]) /\ ~FileParses(msg, obj.attachments[i])
    THEN Raise("ParseError")
    ELSE Ok([obj EXCEPT !.dataframes =
                {obj.attachments[i] : i \in {j \in 1..Len(obj.attachments) : IsTabular(obj.attachments[j])}}])

\* EmailData(session, email_id, download_folder, email_folder, filetypes):
\* fetch, populate_object, get_dataframes.  [status, val, disk].
EmailData(msg, d, email_id, email_folder, download_filetypes, fetch_fails) ==
    IF fetch_fails THEN [status |-> "SessionError", val |-> <<>>, disk |-> d]
    ELSE LET obj == populate_object(msg, email_id, email_folder, download_filetypes)
             d1 == WriteAttachments(d, obj)
             r == get_dataframes(msg, obj)
         IN [status |-> r.status, val |-> r.val, disk |-> d1]

\* shutil.rmtree(filedir): the directory and what is in it are removed; a
\* directory that is not there is a FileNotFoundError.  [status, disk].
rmtree(d, filedir) ==
    IF filedir \notin d.dirs THEN [status |-> "FileNotFoundError", disk |-> d]
    ELSE [status |-> "ok",
          disk |-> [dirs |-> d.dirs \ {filedir},
                    files |-> {f \in d.files : <<f[1], f[2]>> # filedir}]]

\* As delete_files but without the except clause.
delete_files_unguarded(d, obj) == rmtree(d, <<obj.email_folder, obj.email_id>>)

\* delete_files: rmtree of download_folder/email_folder/email_id; the
\* FileNotFoundError is passed over.  [status, disk].
delete_files(d, obj) ==
    LET r == rmtree(d, <<obj.email_folder, obj.email_id>>)
    IN IF r.status = "FileNotFoundError" THEN [status |-> "ok", disk |-> d] ELSE r

----------------------------------------------------------------------------
(* main.py: the session, retrieval and the two search paths *)

\* The loop of get_desired_email_objects from email_ids[k] on; the fetch of
\* email_ids[k] is session command number first + k.
RECURSIVE BuildObjects(_, _, _, _, _, _, _, _)
BuildObjects(mb, d, email_ids, download_filetypes, email_folder, fail, first, k) ==
    IF k > Len(email_ids) THEN [status |-> "ok", val |-> <<>>, disk |-> d, log |-> <<>>]
    ELSE LET id == email_ids[k]
             fetch == <<Cmd("fetch", <<id>>)>>
         IN IF id \notin 1..Len(mb)  \* no message id: the fetch is answered BAD
            THEN [status |-> "SessionError", val |-> <<>>, disk |-> d, log |-> fetch]
            ELSE
            Let(EmailData(mb[id], d, id, email_folder, download_filetypes, fail = first + k), LAMBDA e :
                IF e.status # "ok"
                THEN [status |-> e.status, val |-> <<>>, disk |-> e.disk, log |-> fetch]
                ELSE Let(BuildObjects(mb, e.disk, email_ids, download_filetypes, email_folder, fail, first, k + 1), LAMBDA rest :
                         IF rest.status # "ok"
                         THEN [status |-> rest.status, val |-> <<>>, disk |-> rest.disk, log |-> fetch \o rest.log]
                         ELSE [status |-> "ok", val |-> <<e.val>> \o rest.val, disk |-> rest.disk,
                               log |-> fetch \o rest.log]))

get_desired_email_objects(mb, d, email_ids, download_filetypes, include_emails_without_attachments, email_folder, sort_direction, fail, first) ==
    Let(BuildObjects(mb, d, email_ids, download_filetypes, email_folder, fail, first, 1), LAMBDA built :
        IF built.status # "ok" THEN built
        ELSE Let(sort_email_objects(built.val, include_emails_without_attachments, sort_direction, 0), LAMBDA sorted :
                 [status |-> sorted.status, val |-> sorted.val, disk |-> built.disk, log |-> built.log]))

\* any(keyword in text for keyword in keywords) on a text that may be None:
\* "TypeError" when the first test is made on None.
AnyKeywordIn(keywords, text) ==
    IF keywords = <<>> THEN "False"
    ELSE IF IsNone(text) THEN "TypeError"
    ELSE IF \E i \in 1..Len(keywords) : In(keywords[i], text[1]) THEN "True"
    ELSE "False"

AnyKeywordInNames(keywords, names) ==
    \E i \in 1..Len(keywords) : \E j \in 1..Len(names) : In(keywords[i], names[j])

\* The for loop of search_emails_slow (main.py:384-394) from objs[k] on.
RECURSIVE MatchLoop(_, _, _, _, _, _, _)
MatchLoop(objs, k, d, keywords, search_body, search_subject, search_attachment) ==
    IF k > Len(objs) THEN [status |-> "ok", val |-> <<>>, disk |-> d]
    ELSE LET m_obj == objs[k]
             in_subject == IF search_subject THEN AnyKeywordIn(keywords, m_obj.subject) ELSE "False"
             in_body == IF search_body THEN AnyKeywordIn(keywords, Some(m_obj.message)) ELSE "False"
             keep == \/ in_subject = "True"
                     \/ in_body = "True"
                     \/ search_attachment /\ AnyKeywordInNames(keywords, m_obj.attachments)
         IN IF in_subject = "TypeError"
            THEN [status |-> "TypeError", val |-> <<>>, disk |-> d]
            ELSE Let(keep, LAMBDA kept :
                 Let(IF kept THEN d ELSE delete_files(d, m_obj).disk, LAMBDA d1 :
                 Let(MatchLoop(objs, k + 1, d1, keywords, search_body, search_subject, search_attachment), LAMBDA rest :
                     IF rest.status # "ok" THEN rest
                     ELSE [status |-> "ok", val |-> (IF kept THEN <<m_obj>> ELSE <<>>) \o rest.val,
                           disk |-> rest.disk])))

search_emails_slow(mb, d, keywords, folder, search_body, search_subject, search_attachment, start_date, end_date, sender_list, download_filetypes, include_emails_without_attachments, sort_direction, fail, how) ==
    Let(fetch_emails_in_date_range(mb, start_date, end_date, folder, sender_list, fail, how), LAMBDA ids :
        IF ids.status # "ok"
        THEN [status |-> ids.status, val |-> <<>>, disk |-> d, path |-> "slow", log |-> ids.log,
              candidates |-> <<>>, searched |-> FALSE]
        ELSE Let(get_desired_email_objects(mb, d, ids.val, download_filetypes, include_emails_without_attachments, folder, sort_direction, fail, 2), LAMBDA objs :
                 IF objs.status # "ok"
                 THEN [status |-> objs.status, val |-> <<>>, disk |-> objs.disk, path |-> "slow",
                       log |-> ids.log \o objs.log,
                       candidates |-> (IF ids.searched THEN ids.val ELSE <<>>),
                       searched |-> ids.searched]
                 ELSE Let(IF \E i \in 1..Len(keywords) : keywords[i] = <<"*">>
                          THEN [status |-> "ok", val |-> objs.val, disk |-> objs.disk]
                          ELSE MatchLoop(objs.val, 1, objs.disk, keywords, search_body, search_subject, search_attachment), LAMBDA matched :
                          [status |-> matched.status, val |-> matched.val, disk |-> matched.disk,
                           path |-> "slow", log |-> ids.log \o objs.log,
                           candidates |-> (IF ids.searched THEN ids.val ELSE <<>>),
                           searched |-> ids.searched])))

\* The fast path of search_emails (main.py:204-214); every exception is
\* raised again as RuntimeError.
search_emails_fast(mb, d, keywords, folder, search_body, search_subject, start_date, end_date, fail, how) ==
    LET criteria == build_overall_criteria(keywords, search_body, search_subject, start_date, end_date, <<>>)
        select == <<Cmd("select", <<folder>>)>>
        search == <<Cmd("search", criteria.val)>>
        failed(log) == [status |-> "RuntimeError", val |-> <<>>, disk |-> d, path |-> "fast",
                        log |-> log, candidates |-> <<>>, searched |-> FALSE]
    IN IF fail = 1 THEN failed(select)
       ELSE IF criteria.status # "ok" THEN failed(select)
       ELSE IF (fail = 2 /\ how = "exception") \/ ~WellFormed(criteria.val) THEN failed(select \o search)
       ELSE IF fail = 2
       THEN [status |-> "ok", val |-> NoWords, disk |-> d, path |-> "fast",
             log |-> select \o search, candidates |-> <<>>, searched |-> FALSE]
       ELSE [status |-> "ok", val |-> SessionSearch(mb, criteria.val), disk |-> d, path |-> "fast",
             log |-> select \o search, candidates |-> SessionSearch(mb, criteria.val),
             searched |-> TRUE]

\* A bug the path selection could have: both flags needed for the slow path.
UseSlowPathBoth(search_attachment_name, accurate_search) == search_attachment_name /\ accurate_search

\* main.py:198
UseSlowPath(search_attachment_name, accurate_search) == search_attachment_name \/ accurate_search

\* search_emails: a is the record of its arguments.  The slow path is called
\* without search_attachment, download_filetypes and sort_direction, which
\* take their defaults, and without no_of_matches.
search_emails(mb, d, a, fail, how) ==
    IF UseSlowPath(a.search_attachment_name, a.accurate_search)
    THEN search_emails_slow(mb, d, a.keywords, a.folder, a.search_body, a.search_subject, FALSE,
                            a.start_date, a.end_date, a.sender_list, <<"*">>,
                            a.include_emails_without_attachments, "recent_first", fail, how)
    ELSE search_emails_fast(mb, d, a.keywords, a.folder, a.search_body, a.search_subject,
                            a.start_date, a.end_date, fail, how)

----------------------------------------------------------------------------
(* Specification of a search on a bounded mailbox *)

Part(ctype, disposition, filename, payload, parses) ==
    [ctype |-> ctype, disposition |-> disposition, filename |-> filename, payload |-> payload,
     parses |-> parses]
Container == Part("multipart/mixed", None, None, <<>>, TRUE)
TextPart(payload) == Part("text/plain", None, None, payload, TRUE)
HtmlPart(payload) == Part("text/html", None, None, payload, TRUE)
Attachment(name, parses) == Part("application/octet-stream", Some("attachment"), Some(name), <<>>, parses)
Message(sender, subject, date, internaldate, parts) ==
    [sender |-> sender, subject |-> subject, date |-> date, internaldate |-> internaldate,
     parts |-> parts]

\* The messages a mailbox is made of.
Catalog ==
    { \* subject 'Invoice May', no attachment, not multipart
      Message(Some(<<<<"x">>>>), Some(<<<<"Invoice", "May">>>>), Some(1), 1,
              <<TextPart(<<"hello">>)>>),
      \* subject 'Report', attachment data.csv
      Message(Some(<<<<"y">>>>), Some(<<<<"Report">>>>), Some(2), 2,
              <<Container, TextPart(<<"see", "data">>), Attachment(<<"data", ".csv">>, TRUE)>>),
      \* no Subject header, the keyword in the body (html), attachment
      Message(Some(<<<<"x">>>>), None, Some(2), 2,
              <<Container, HtmlPart(<<"<b>", "Invoice", "</b>">>), Attachment(<<"scan", ".txt">>, TRUE)>>),
      \* no Date header, the keyword in the attachment name only
      Message(Some(<<<<"y">>>>), Some(<<<<"Report">>>>), None, 1,
              <<Container, TextPart(<<"see">>), Attachment(<<"Invoice", ".CSV">>, TRUE)>>),
      \* a spreadsheet pandas cannot read
      Message(Some(<<<<"x">>>>), Some(<<<<"Report", "May">>>>), Some(1), 2,
              <<Container, TextPart(<<"Invoice">>), Attachment(<<"bad", ".xls">>, FALSE)>>) }

\* Mailboxes of up to MaxMsgs different messages.
Mailboxes == {mb \in SeqsUpTo(Catalog, MaxMsgs) : \A i, j \in 1..Len(mb) : i # j => mb[i] # mb[j]}

SearchKeywords == {<<>>, <<<<"Invoice">>>>, <<<<"May">>, <<"Report">>>>, <<<<"*">>>>}

SearchArgs ==
    [fn : {"search_emails"},
     keywords : SearchKeywords,
     folder : {"inbox"},
     start_date : {None, Some(1), Some(2)},
     end_date : {None},
     search_body : BOOLEAN, search_subject : BOOLEAN, search_attachment_name : BOOLEAN,
     include_emails_without_attachments : BOOLEAN,
     attachment_filetypes : {<<".csv">>},
     no_of_matches : 0..MaxCap,
     accurate_search : BOOLEAN,
     sender_list : {<<>>}]

Init ==
    /\ args \in SearchArgs
    /\ ret = Pending
    /\ mailbox \in Mailboxes
    /\ disk = EmptyDisk
    /\ trace = NoTrace

\* One call of search_emails, to its return or exception.
SearchEmails(fail, how) ==
    /\ args.fn = "search_emails"
    /\ ret.status = "pending"
    /\ \E r \in {search_emails(mailbox, disk, args, fail, how)} :
          /\ ret' = [status |-> r.status, val |-> r.val]
          /\ disk' = r.disk
          /\ trace' = [path |-> r.path, log |-> r.log, candidates |-> r.candidates,
                       searched |-> r.searched, failed |-> fail \in 1..Len(r.log),
                       before |-> disk]
    /\ UNCHANGED <<args, mailbox>>

\* The caller searches again, for other keywords; the downloads stay.
NewCall(keywords) ==
    /\ args.fn = "search_emails"
    /\ ret.status # "pending"
    /\ keywords # args.keywords
    /\ args' = [args EXCEPT !.keywords = keywords]
    /\ ret' = Pending
    /\ trace' = NoTrace
    /\ UNCHANGED <<mailbox, disk>>

Next ==
    \/ \E fail \in 0..(Len(mailbox) + 2), how \in FailureKinds : SearchEmails(fail, how)
    \/ \E keywords \in SearchKeywords : NewCall(keywords)

Spec == Init /\ [][Next]_vars

----------------------------------------------------------------------------
(* Properties of a search (under Spec) *)

Called == args.fn = "search_emails" /\ ret.status # "pending"

\* The ids of the returned result: the fast path returns ids, the slow path
\* records.
ResultIds ==
    IF trace.path = "slow" THEN {ret.val[i].email_id : i \in 1..Len(ret.val)}
    ELSE {ret.val[i] : i \in 1..Len(ret.val)}
ResultId(i) == IF trace.path = "slow" THEN ret.val[i].email_id ELSE ret.val[i]

CandidateIds == {trace.candidates[i] : i \in 1..Len(trace.candidates)}

\* C1: when a slow-path search has ended, by returning or by raising, no
\* candidate of the date/sender search that is not in the returned result
\* has a directory download_folder/folder/<id>/.
C1_NoOrphanedDirectories ==
    (Called /\ trace.path = "slow") =>
        \A c \in CandidateIds \ ResultIds : <<args.folder, c>> \notin disk.dirs

\* The same for the searches that return.
C1_HoldsOnReturn ==
    (Called /\ trace.path = "slow" /\ ret.status = "ok") =>
        \A c \in CandidateIds \ ResultIds : <<args.folder, c>> \notin disk.dirs

KeywordTerms(criteria) == {i \in 1..Len(criteria) : criteria[i].t \in {"BODY", "SUBJECT"}}
Commands(c) == {i \in 1..Len(trace.log) : trace.log[i].cmd = c}

\* C2: the slow path is taken iff attachment-name search or accurate mode
\* is asked for, otherwise the fast path, and only the path taken acts: a
\* fast-path call fetches no message and leaves the disk as it was, a
\* slow-path call sends no keyword term to the server.
C2_PathSelectedOncePerCall ==
    Called =>
        /\ trace.path = (IF args.search_attachment_name \/ args.accurate_search
                         THEN "slow" ELSE "fast")
        /\ Cardinality(Commands("search")) <= 1
        /\ trace.path = "fast" => (Commands("fetch") = {} /\ disk = trace.before)
        /\ trace.path = "slow" =>
              \A i \in Commands("search") : KeywordTerms(trace.log[i].arg) = {}

\* A fast-path call returned ids for keywords, on a mailbox whose messages
\* have attachments to download.
C2_Witness ==
    /\ Called /\ trace.path = "fast" /\ ret.status = "ok" /\ trace.searched
    /\ ~args.search_attachment_name /\ ~args.accurate_search
    /\ args.keywords # <<>>
    /\ Len(ret.val) >= 1
    /\ \E i \in Commands("search") : KeywordTerms(trace.log[i].arg) # {}

HasAttachment(id) == DownloadedParts(mailbox[id], <<"*">>) # <<>>

\* C3: on either path the returned result went through the result policy:
\* without attachment-less messages unless they are asked for, ordered by
\* timestamp, and of at most no_of_matches entries when that is set.
C3_ResultPolicyOnBothPaths ==
    (Called /\ ret.status = "ok" /\ trace.searched) =>
        /\ ~args.include_emails_without_attachments =>
              \A i \in 1..Len(ret.val) : HasAttachment(ResultId(i))
        /\ \A i, j \in 1..Len(ret.val) :
              (i < j /\ ~IsNone(mailbox[ResultId(i)].date) /\ ~IsNone(mailbox[ResultId(j)].date)) =>
                  mailbox[ResultId(i)].date[1] >= mailbox[ResultId(j)].date[1]
        /\ args.no_of_matches > 0 => Len(ret.val) <= args.no_of_matches

\* The record of candidate c, and whether a keyword occurs in one of the
\* targets the call enabled.
RecordOf(c) == populate_object(mailbox[c], c, args.folder, <<"*">>)
KeywordInEnabledTarget(c) ==
    \E i \in 1..Len(args.keywords) :
        \/ /\ args.search_subject
           /\ ~IsNone(RecordOf(c).subject)
           /\ In(args.keywords[i], RecordOf(c).subject[1])
        \/ args.search_body /\ In(args.keywords[i], RecordOf(c).message)
        \/ /\ args.search_attachment_name
           /\ \E j \in 1..Len(RecordOf(c).attachments) :
                 In(args.keywords[i], RecordOf(c).attachments[j])

\* C7: a slow-path keyword search returns exactly the candidates that hold
\* a keyword in an enabled target and that have an attachment or are
\* wanted without one.
C7_SlowPathReturnsExactlyTheMatches ==
    (Called /\ trace.path = "slow" /\ ret.status = "ok"
        /\ \A i \in 1..Len(args.keywords) : args.keywords[i] # <<"*">>) =>
        ResultIds = {c \in CandidateIds :
                        /\ KeywordInEnabledTarget(c)
                        /\ RecordOf(c).attachments # <<>> \/ args.include_emails_without_attachments}

----------------------------------------------------------------------------
(* Sender filter (under SpecCriteria) *)

Balanced(toks) ==
    /\ CountTok(toks, "(") = CountTok(toks, ")")
    /\ \A n \in 1..Len(toks) : CountTok(SubSeq(toks, 1, n), "(") >= CountTok(SubSeq(toks, 1, n), ")")

\* Messages that differ in the sender only; "z" is in no sender list.
SenderMessages == {PlainMessage(<<s>>, <<"a">>, <<"a">>, 1) : s \in {"x", "y", "z"}}

SenderListed(m) == \E i \in 1..Len(args.sender_list) : In(args.sender_list[i], HeaderText(m.sender))

\* The filter that was built or sent: the returned expression of
\* build_overall_criteria, the search command of fetch_emails_in_date_range.
SentFilter ==
    IF args.fn = "build_overall_criteria" THEN ret.val
    ELSE trace.log[Len(trace.log)].arg

\* The same filter without the sender list.
DateKeywordPart ==
    IF args.fn = "build_overall_criteria"
    THEN build_overall_criteria(args.keywords, args.search_body, args.search_subject,
                                args.start_date, args.end_date, <<>>).val
    ELSE build_date_criteria(args.start_date, args.end_date)

\* C11: for a sender list of more than one entry the filter of the fast
\* path (build_overall_criteria) and of the slow path
\* (fetch_emails_in_date_range) is well formed, with balanced parentheses,
\* and accepts a message iff its sender is one of the list and the
\* date/keyword part accepts it.
C11_SenderListIsOrGroup ==
    (/\ args.fn \in {"build_overall_criteria", "fetch_emails_in_date_range"}
     /\ ret.status # "pending"
     /\ Len(args.sender_list) > 1
     /\ args.fn = "build_overall_criteria" => ret.status = "ok") =>
        /\ ret.status = "ok"
        /\ Balanced(SentFilter)
        /\ \A m \in SenderMessages :
              /\ ServerAccepts(SentFilter, m).status = "ok"
              /\ ServerAccepts(SentFilter, m).val =
                    (SenderListed(m) /\ (DateKeywordPart = <<>> \/ ServerAccepts(DateKeywordPart, m).val))

----------------------------------------------------------------------------
(* Attachment-name search, wildcard, allow-list and cap (under Spec) *)

NoWildcard == \A i \in 1..Len(args.keywords) : args.keywords[i] # <<"*">>

KeywordInAttachmentName(c) ==
    \E i \in 1..Len(args.keywords) : \E j \in 1..Len(RecordOf(c).attachments) :
        In(args.keywords[i], RecordOf(c).attachments[j])

\* C12: when attachment-name search is asked for, a candidate with a
\* keyword in the file name of one of its attachments is returned by
\* search_emails and its files stay on disk.
C12_AttachmentNameMatchIsKept ==
    (Called /\ trace.path = "slow" /\ ret.status = "ok" /\ trace.searched
        /\ args.search_attachment_name /\ NoWildcard) =>
        \A c \in CandidateIds :
            KeywordInAttachmentName(c) =>
                /\ c \in ResultIds
                /\ <<args.folder, c>> \in disk.dirs

\* C13: a slow-path search with '*' among the keywords, whose date/sender
\* search gave candidates and whose session commands all succeeded, returns
\* every candidate and deletes no candidate's files.
C13_WildcardReturnsEveryCandidate ==
    (Called /\ trace.path = "slow" /\ trace.searched /\ ~trace.failed
        /\ ~NoWildcard /\ CandidateIds # {}) =>
        /\ ret.status = "ok"
        /\ ResultIds = CandidateIds
        /\ \A c \in CandidateIds : HasAttachment(c) => <<args.folder, c>> \in disk.dirs

\* The allow-list the search was configured with.
Allowed(name) == \E i \in 1..Len(args.attachment_filetypes) : Suffix(name) = args.attachment_filetypes[i]
HasWildcardType == \E i \in 1..Len(args.attachment_filetypes) : args.attachment_filetypes[i] = "*"

\* C14: when attachment_filetypes does not hold '*', a search writes no
\* file whose extension is outside attachment_filetypes, and no returned
\* record lists such an attachment or holds a table of such a file.
C14_AllowListHoldsOverSearch ==
    (Called /\ ~HasWildcardType) =>
        /\ \A f \in disk.files : Allowed(f[3])
        /\ (ret.status = "ok" /\ trace.path = "slow") =>
              \A i \in 1..Len(ret.val) :
                  /\ \A j \in 1..Len(ret.val[i].attachments) : Allowed(ret.val[i].attachments[j])
                  /\ \A name \in ret.val[i].dataframes : Allowed(name)

\* C20: a search with no_of_matches = n > 0 returns at most n results, on
\* the fast path and on the slow path.
C20_ResultCapOfSearch ==
    (Called /\ ret.status = "ok" /\ trace.searched /\ args.no_of_matches > 0) =>
        Len(ret.val) <= args.no_of_matches

\* C18: in one search call no session command is issued twice, and when a
\* session command failed the call ends with an exception, not a result.
C18_SessionFailureEndsTheCall ==
    Called =>
        /\ \A i, j \in 1..Len(trace.log) : i < j => trace.log[i] # trace.log[j]
        /\ trace.failed => ret.status # "ok"

----------------------------------------------------------------------------
(* Specification of one EmailData record: built, then its files deleted *)

MaxParts == 2
MaxDeletes == 2

\* The parts a message is made of.
PartPool ==
    { TextPart(<<"hello">>),
      HtmlPart(<<"<b>", "hi", "</b>">>),
      \* a text file sent as attachment
      Part("text/plain", Some("attachment"), Some(<<"notes", ".txt">>), <<"n">>, TRUE),
      \* an inline text part whose file name holds the word attachment
      Part("text/plain", Some("inline"), Some(<<"attachment", ".txt">>), <<"i">>, TRUE),
      \* neither text nor attachment
      Part("application/pdf", None, None, <<"pdf">>, TRUE),
      Attachment(<<"report", ".CSV">>, TRUE),
      Attachment(<<"data", ".csv">>, TRUE),
      Attachment(<<"bad", ".xls">>, FALSE),
      \* a disposition header without file name
      Part("application/octet-stream", Some("attachment"), None, <<>>, TRUE),
      \* a file name (Content-Type name) without disposition header
      Part("application/octet-stream", None, Some(<<"logo", ".csv">>), <<>>, TRUE) }

\* A message of one part, or a container with up to MaxParts parts.
RecordMessages ==
    {Message(Some(<<<<"x">>>>), Some(<<<<"Report">>>>), Some(1), 1, <<p>>) : p \in PartPool}
    \cup {Message(Some(<<<<"x">>>>), Some(<<<<"Report">>>>), Some(1), 1, <<Container>> \o ps) :
              ps \in SeqsUpTo(PartPool, MaxParts) \ {<<>>}}

FiletypeLists == {<<".csv">>, <<"*">>, <<".csv", ".xls">>, <<".txt", "*">>}

\* The download folder before the record is built: empty, with files of an
\* earlier download of the same message, or with another message's files.
InitialDisks ==
    { EmptyDisk,
      [dirs |-> {<<"inbox", 1>>}, files |-> {<<"inbox", 1, <<"data", ".csv">>>>}],
      [dirs |-> {<<"inbox", 2>>}, files |-> {<<"inbox", 2, <<"old", ".txt">>>>}] }

InitRecord ==
    /\ args \in [fn : {"EmailData"}, email_id : {1}, email_folder : {"inbox"},
                 download_filetypes : FiletypeLists]
    /\ ret = Pending
    /\ mailbox \in {<<m>> : m \in RecordMessages}
    /\ disk \in InitialDisks
    /\ trace = NoTrace

\* EmailData(session, email_id, download_folder, email_folder, filetypes).
BuildRecord(fetch_fails) ==
    /\ args.fn = "EmailData"
    /\ ret.status = "pending"
    /\ \E r \in {EmailData(mailbox[args.email_id], disk, args.email_id, args.email_folder,
                           args.download_filetypes, fetch_fails)} :
          /\ ret' = [status |-> r.status, val |-> r.val]
          /\ disk' = r.disk
    /\ trace' = [NoTrace EXCEPT !.log = <<Cmd("fetch", <<args.email_id>>)>>,
                                !.failed = fetch_fails, !.before = disk]
    /\ UNCHANGED <<args, mailbox>>

DeleteCalls == Cardinality({i \in 1..Len(trace.log) : trace.log[i].cmd = "delete_files"})

\* m_obj.delete_files() on the record that was built.
DeleteFiles ==
    /\ args.fn \in {"EmailData", "delete_files"}
    /\ ret.status = "ok"
    /\ DeleteCalls < MaxDeletes
    /\ \E r \in {delete_files(disk, ret.val)} :
          /\ ret' = [status |-> r.status, val |-> ret.val]
          /\ disk' = r.disk
    /\ args' = [args EXCEPT !.fn = "delete_files"]
    /\ trace' = [trace EXCEPT !.log = @ \o <<Cmd("delete_files", <<args.email_id>>)>>,
                              !.before = disk]
    /\ UNCHANGED mailbox

NextRecord ==
    \/ \E fetch_fails \in BOOLEAN : BuildRecord(fetch_fails)
    \/ DeleteFiles

SpecRecord == InitRecord /\ [][NextRecord]_vars

----------------------------------------------------------------------------
(* Properties of one record (under SpecRecord) *)

\* The constructor was called and the fetch did not fail.
RecordBuilt == args.fn = "EmailData" /\ ret.status # "pending" /\ ~trace.failed

TheMessage == mailbox[args.email_id]

\* The file names of the parts that have a disposition header and a file
\* name whose extension is an entry of the allow-list, or any extension when
\* the allow-list holds '*'; in the order of the parts.
Qualifies(part) ==
    /\ ~IsNone(part.disposition)
    /\ ~IsNone(part.filename)
    /\ \/ \E i \in 1..Len(args.download_filetypes) :
             args.download_filetypes[i] = Suffix(part.filename[1])
       \/ \E i \in 1..Len(args.download_filetypes) : args.download_filetypes[i] = "*"
QualifyingParts == SelectSeq(TheMessage.parts, Qualifies)
QualifyingNames == [i \in 1..Len(QualifyingParts) |-> QualifyingParts[i].filename[1]]

\* C15: the record lists exactly the parts with a disposition header, a
\* file name and an allowed extension (exact, case-sensitive; any for '*'),
\* in traversal order, and exactly their files are written.
C15_AttachmentSelection ==
    RecordBuilt =>
        /\ ret.status = "ok" => ret.val.attachments = QualifyingNames
        /\ disk.dirs = trace.before.dirs \cup
                          (IF QualifyingNames = <<>> THEN {} ELSE {<<args.email_folder, args.email_id>>})
        /\ disk.files = trace.before.files \cup
                           {<<args.email_folder, args.email_id, QualifyingNames[i]>> :
                               i \in 1..Len(QualifyingNames)}

\* A message with report.CSV and data.csv, built with allow-list ['.csv']:
\* only data.csv is listed.
C15_Witness ==
    /\ RecordBuilt /\ ret.status = "ok"
    /\ args.download_filetypes = <<".csv">>
    /\ \E i, j \in 1..Len(TheMessage.parts) :
          /\ i < j
          /\ TheMessage.parts[i].filename = Some(<<"report", ".CSV">>)
          /\ TheMessage.parts[j].filename = Some(<<"data", ".csv">>)
    /\ ret.val.attachments = <<<<"data", ".csv">>>>

\* The qualifying tabular files that pandas can read.
ParsedNames ==
    {QualifyingNames[i] : i \in {j \in 1..Len(QualifyingNames) :
        IsTabular(QualifyingNames[j]) /\ FileParses(TheMessage, QualifyingNames[j])}}

\* C16: when a qualifying tabular attachment cannot be parsed the record is
\* still built: that file has no table, it stays in attachments and on
\* disk, and the other tabular attachments have their tables.
C16_ParseFailureIsLocal ==
    RecordBuilt =>
        /\ ret.status = "ok"
        /\ ret.val.attachments = QualifyingNames
        /\ ret.val.dataframes = ParsedNames

Deleted == args.fn = "delete_files" /\ DeleteCalls >= 1
RecordDir == <<args.email_folder, args.email_id>>

\* C17: delete_files does not raise; afterwards the record's directory and
\* its files are gone and everything else on disk is as before; on a
\* directory that is not there (never created, already deleted) the disk
\* is unchanged.
C17_DeleteFilesIsIdempotent ==
    Deleted =>
        /\ ret.status = "ok"
        /\ disk.dirs = trace.before.dirs \ {RecordDir}
        /\ disk.files = {f \in trace.before.files : <<f[1], f[2]>> # RecordDir}
        /\ RecordDir \notin trace.before.dirs => disk = trace.before
        /\ DeleteCalls >= 2 => disk = trace.before

\* delete_files was called a second time, on the directory it had removed.
C17_Witness ==
    /\ Deleted /\ DeleteCalls = 2
    /\ ret.val.attachments # <<>>
    /\ ret.status = "ok"
    /\ RecordDir \notin disk.dirs

\* The text of the parts of type text/plain or text/html that are not
\* marked as attachment, html stripped, joined by newline.
Contributes(part) ==
    /\ part.ctype \in {"text/plain", "text/html"}
    /\ part.disposition # Some("attachment")
ContributingParts == SelectSeq(TheMessage.parts, Contributes)
PartText(part) == IF part.ctype = "text/html" THEN get_text(part.payload) ELSE part.payload

\* C19: the body of a record, of a multipart message or not, is the text
\* of exactly the parts of type text/plain or text/html that are not marked
\* as attachment, joined by newline in traversal order.
C19_BodyAssembly ==
    (RecordBuilt /\ ret.status = "ok") =>
        ret.val.message =
            Join([i \in 1..Len(ContributingParts) |-> PartText(ContributingParts[i])], <<"\n">>)

----------------------------------------------------------------------------
(* text_match.py and types.py: StringMatch *)

MaxText == 3

\* get_type_hints(StringMatch.__init__): the annotated parameters, in
\* order; self has no annotation and is not among them.
InitHints == <<"str", "str", "bool", "bool">>

\* enforce_types_object: args[1:] (self dropped) are zipped with the hints
\* after the first one; keyword arguments are not looked at.
\* positional_types are the types of the arguments passed by position.
enforce_types_object(hints, positional_types) ==
    LET args_to_check == positional_types
        hints_to_check == Tail(hints)
        n == IF Len(args_to_check) < Len(hints_to_check)
             THEN Len(args_to_check) ELSE Len(hints_to_check)
    IN IF \E k \in 1..n : args_to_check[k] # hints_to_check[k]
       THEN "TypeError" ELSE "ok"

\* str.find: the least index (from 0) where k occurs in s, -1 without one.
find(s, k) ==
    IF ~In(k, s) THEN -1
    ELSE CHOOSE i \in 0..(Len(s) - Len(k)) :
            /\ SubSeq(s, i + 1, i + Len(k)) = k
            /\ \A j \in 0..(i - 1) : SubSeq(s, j + 1, j + Len(k)) # k

\* The attributes as __init__ sets them before matching.
NoMatch == [found |-> FALSE, index |-> None, matched_string |-> None, matched_groups |-> <<>>]

match_standard(pattern, match_against, complete_match) ==
    IF complete_match
    THEN IF pattern = match_against
         THEN [found |-> TRUE, index |-> Some(0), matched_string |-> Some(match_against),
               matched_groups |-> <<match_against>>]
         ELSE NoMatch
    ELSE IF In(pattern, match_against)
         THEN [found |-> TRUE, index |-> Some(find(match_against, pattern)),
               matched_string |-> Some(match_against), matched_groups |-> <<match_against>>]
         ELSE NoMatch

\* match_regex for a pattern without metacharacters and groups:
\* re.fullmatch is equality, re.search finds the first occurrence,
\* match.group() is the pattern and match.groups() is empty.
match_regex(pattern, match_against, complete_match) ==
    IF complete_match
    THEN IF pattern = match_against
         THEN [found |-> TRUE, index |-> Some(0), matched_string |-> Some(match_against),
               matched_groups |-> <<match_against>>]
         ELSE NoMatch
    ELSE IF In(pattern, match_against)
         THEN [found |-> TRUE, index |-> Some(find(match_against, pattern)),
               matched_string |-> Some(pattern), matched_groups |-> <<>>]
         ELSE NoMatch

\* StringMatch(pattern, match_against, is_regex, complete_match), the
\* first `positional` of the four arguments passed by position.
StringMatch(pattern, match_against, is_regex, complete_match, positional) ==
    IF enforce_types_object(InitHints, SubSeq(InitHints, 1, positional)) = "TypeError"
    THEN Raise("TypeError")
    ELSE Ok(IF is_regex THEN match_regex(pattern, match_against, complete_match)
                        ELSE match_standard(pattern, match_against, complete_match))

\* StringMatch.__bool__
bool(sm) == sm.found

MatchTexts == SeqsUpTo(Symbols, MaxText)

InitMatch ==
    /\ args \in [fn : {"StringMatch"}, pattern : MatchTexts, match_against : MatchTexts,
                 is_regex : BOOLEAN, complete_match : BOOLEAN,
                 positional : 0..Len(InitHints)]
    /\ ret = Pending
    /\ mailbox = <<>>
    /\ disk = EmptyDisk
    /\ trace = NoTrace

Construct ==
    /\ args.fn = "StringMatch"
    /\ ret.status = "pending"
    /\ ret' = StringMatch(args.pattern, args.match_against, args.is_regex, args.complete_match,
                          args.positional)
    /\ UNCHANGED <<args, mailbox, disk, trace>>

NextMatch == Construct

SpecMatch == InitMatch /\ [][NextMatch]_vars

\* C21: in non-regex mode, for every pattern and target: with partial
\* matching found iff the pattern is a substring of the target, index the
\* position of the first occurrence and matched_string the target; with
\* complete_match found iff pattern = target, and index 0; without a match
\* index and matched_string are None and matched_groups is empty;
\* bool(match) is found.
C21_StandardMatch ==
    (args.fn = "StringMatch" /\ ret.status # "pending" /\ ~args.is_regex) =>
        /\ ret.status = "ok"
        /\ ret.val.found = (IF args.complete_match THEN args.pattern = args.match_against
                                                   ELSE In(args.pattern, args.match_against))
        /\ (ret.val.found /\ ~args.complete_match) =>
              /\ ret.val.index = Some(find(args.match_against, args.pattern))
              /\ \A i \in 0..(ret.val.index[1] - 1) :
                    SubSeq(args.match_against, i + 1, i + Len(args.pattern)) # args.pattern
              /\ ret.val.matched_string = Some(args.match_against)
        /\ (ret.val.found /\ args.complete_match) => ret.val.index = Some(0)
        /\ ~ret.val.found =>
              /\ IsNone(ret.val.index) /\ IsNone(ret.val.matched_string)
              /\ ret.val.matched_groups = <<>>
        /\ bool(ret.val) = ret.val.found

----------------------------------------------------------------------------
(* objects.py: move_email, copy_email_and_delete *)

MaxMoveMsgs == 3

\* The selected folder on the server is [msgs, deleted, copied]: the ids in
\* it, those flagged \\Deleted, and what was copied to which folder.
\* A command is answered OK or NO, which imaplib returns as the first item
\* of its result, or it ends with an exception.
Answers == {"OK", "NO", "exception"}
Sent(c, a, answer) == [cmd |-> c, arg |-> a, answer |-> answer]

session_copy(srv, id, new_folder, answer) ==
    IF answer = "OK" THEN [srv EXCEPT !.copied = @ \cup {<<new_folder, id>>}] ELSE srv

session_store_deleted(srv, id, answer) ==
    IF answer = "OK" THEN [srv EXCEPT !.deleted = @ \cup {id}] ELSE srv

\* EXPUNGE removes every message flagged \\Deleted.
session_expunge(srv, answer) ==
    IF answer = "OK" THEN [srv EXCEPT !.msgs = @ \ srv.deleted, !.deleted = {}] ELSE srv

\* copy_email_and_delete: [status, srv, log]; only the result of copy is
\* tested.
copy_email_and_delete(srv, obj, new_folder, a_copy, a_store, a_expunge) ==
    LET copy == <<Sent("copy", <<obj.email_id, new_folder>>, a_copy)>>
        store == <<Sent("store", <<obj.email_id>>, a_store)>>
        expunge == <<Sent("expunge", <<>>, a_expunge)>>
        srv1 == session_copy(srv, obj.email_id, new_folder, a_copy)
        srv2 == session_store_deleted(srv1, obj.email_id, a_store)
        srv3 == session_expunge(srv2, a_expunge)
    IN IF a_copy = "exception" THEN [status |-> "SessionError", srv |-> srv1, log |-> copy]
       ELSE IF a_copy # "OK" THEN [status |-> "Exception", srv |-> srv1, log |-> copy]
       ELSE IF a_store = "exception"
       THEN [status |-> "SessionError", srv |-> srv2, log |-> copy \o store]
       ELSE IF a_expunge = "exception"
       THEN [status |-> "SessionError", srv |-> srv3, log |-> copy \o store \o expunge]
       ELSE [status |-> "ok", srv |-> srv3, log |-> copy \o store \o expunge]

\* move_email: copy_email_and_delete, then self.email_folder = new_folder.
\* [status, obj, srv, log].
move_email(srv, obj, new_folder, a_copy, a_store, a_expunge) ==
    LET r == copy_email_and_delete(srv, obj, new_folder, a_copy, a_store, a_expunge)
    IN [status |-> r.status,
        obj |-> IF r.status = "ok" THEN [obj EXCEPT !.email_folder = new_folder] ELSE obj,
        srv |-> r.srv, log |-> r.log]

MoveIds == 1..MaxMoveMsgs

\* A record of a message of 'inbox' is moved; other messages of the folder
\* may be flagged \\Deleted already.
InitMove ==
    /\ args \in [fn : {"move_email"}, email_id : MoveIds, email_folder : {"inbox"},
                 new_folder : {"archive", "done"}]
    /\ ret = [status |-> "pending", val |-> [email_id |-> args.email_id, email_folder |-> args.email_folder]]
    /\ mailbox \in {srv \in [msgs : SUBSET MoveIds, deleted : SUBSET MoveIds, copied : {{}}] :
                        /\ args.email_id \in srv.msgs
                        /\ srv.deleted \subseteq srv.msgs \ {args.email_id}}
    /\ disk = EmptyDisk
    /\ trace = NoTrace

MoveEmail(a_copy, a_store, a_expunge) ==
    /\ args.fn = "move_email"
    /\ ret.status = "pending"
    /\ \E r \in {move_email(mailbox, ret.val, args.new_folder, a_copy, a_store, a_expunge)} :
          /\ ret' = [status |-> r.status, val |-> r.obj]
          /\ mailbox' = r.srv
          /\ trace' = [NoTrace EXCEPT !.log = r.log]
    /\ UNCHANGED <<args, disk>>

NextMove == \E a_copy, a_store, a_expunge \in Answers : MoveEmail(a_copy, a_store, a_expunge)

SpecMove == InitMove /\ [][NextMove]_vars

Moved == args.fn = "move_email" /\ ret.status # "pending"
Issued(c) == {i \in 1..Len(trace.log) : trace.log[i].cmd = c}
Succeeded(c) == \E i \in Issued(c) : trace.log[i].answer = "OK"

\* C22: move_email issues copy, then the \\Deleted flag, then expunge, in
\* that order; when the copy is not answered OK the call fails, the message
\* is not flagged, expunge is not issued and email_folder stays as it was;
\* email_folder is the destination only when all three commands succeeded.
C22_EmulatedMove ==
    Moved =>
        /\ \E n \in 0..3 : [i \in 1..Len(trace.log) |-> trace.log[i].cmd]
                               = SubSeq(<<"copy", "store", "expunge">>, 1, n)
        /\ ~Succeeded("copy") =>
              /\ ret.status # "ok"
              /\ Issued("store") = {} /\ Issued("expunge") = {}
              /\ args.email_id \notin mailbox.deleted /\ args.email_id \in mailbox.msgs
              /\ ret.val.email_folder = args.email_folder
        /\ ret.val.email_folder = args.new_folder =>
              Succeeded("copy") /\ Succeeded("store") /\ Succeeded("expunge")
        /\ ret.val.email_folder \in {args.email_folder, args.new_folder}

----------------------------------------------------------------------------
(* A candidate without Subject header (under Spec) *)

\* Every candidate has a Date header and attachments pandas can read, and
\* every session command succeeded: nothing but the keyword tests can fail.
OnlyKeywordTestsCanFail ==
    /\ trace.searched /\ ~trace.failed
    /\ \A c \in CandidateIds :
          /\ ~IsNone(mailbox[c].date)
          /\ get_dataframes(mailbox[c], RecordOf(c)).status = "ok"

\* C23: a slow-path keyword search with subject search enabled returns
\* also when a candidate has no Subject header; that candidate does not
\* match on subject and is kept iff a keyword is in its body.
C23_MissingSubjectDoesNotFail ==
    (Called /\ trace.path = "slow" /\ args.search_subject /\ args.keywords # <<>> /\ NoWildcard
        /\ OnlyKeywordTestsCanFail
        /\ \E c \in CandidateIds : IsNone(RecordOf(c).subject)) =>
        /\ ret.status = "ok"
        /\ \A c \in CandidateIds :
              (IsNone(RecordOf(c).subject) /\ RecordOf(c).attachments # <<>>) =>
                  (c \in ResultIds <=>
                      (args.search_body /\ \E i \in 1..Len(args.keywords) :
                                              In(args.keywords[i], RecordOf(c).message)))

====
